---- MODULE Spec2Model ----
(***************************************************************************)
(* SentinelStream: the transaction risk-decision pipeline.                 *)
(*                                                                         *)
(* process_transaction (app/main.py) is modelled as one process per        *)
(* request; a process advances one step per await-separated block of the   *)
(* handler, so that requests interleave where the event loop (or another   *)
(* worker) can interleave them.  The durable store (PostgreSQL tables      *)
(* transactions, idempotency_keys, fraud_rules), the Redis cache and the   *)
(* Celery queue are shared state.  Every call to a dependency either       *)
(* succeeds or raises, chosen nondeterministically at the call.            *)
(*                                                                         *)
(* Scores are fixed-point: rule_score and ml_score in hundredths (0..100), *)
(* the final risk score in thousandths (0..1000), so that                  *)
(* rule*0.4 + ml*0.6 is exact.  Time is in seconds.                        *)
(***************************************************************************)
EXTENDS Integers, Sequences, FiniteSets, TLC

\* ---------------------------------------------------------------- bounds
NumReqs == 2
MaxTicks == 1

Reqs == 1..NumReqs
Keys == {"k1", "k2"}
KeyIndex(k) == IF k = "k1" THEN 1 ELSE 2
Users == {"u1"}
Amounts == {100, 6000}
\* amounts and keys a caller may send that TransactionRequest does not accept
InvalidAmounts == {0, -100}
Missing == "<missing>"
RawAmounts == Amounts \cup InvalidAmounts
RawKeys == Keys \cup {Missing}
Scores == 0..100
TickSteps == {3600, 86400}
\* raw decision_function values the opaque model may return, in hundredths
DecisionValues == {-139, -100, 0}

\* ------------------------------------------------------ program constants
RULE_WEIGHT == 4
ML_WEIGHT == 6
FRAUD_THRESHOLD == 700
APPROVAL_THRESHOLD == 800
REDIS_TTL == 300
IDEMPOTENCY_CACHE_TTL == 3600
DEFAULT_RISK_SCORE == 50
MAX_TRANSACTIONS == 1000
MAX_RETRIES == 3
TTL_HOURS == 24

\* ------------------------------------------------------------ data shapes
\* A Python datetime, and what JSON can carry instead (an ISO string).
\* src tells where the timestamp was taken: the database (server_default now())
\* or datetime.utcnow() in the handler.
DateTime(src) == [kind |-> "datetime", src |-> src]
IsoString(dt) == [kind |-> "str", src |-> dt.src]
NoTime == [kind |-> "none", src |-> "none"]

NoTxn == [idempotency_key |-> "", user_id |-> "", amount |-> 0]

NoResponse ==
    [transaction_id |-> 0, status |-> "", is_fraud |-> FALSE, risk_score |-> 0,
     rule_score |-> 0, ml_score |-> 0, created_at |-> NoTime]

NoOutcome == [status |-> 0, body |-> NoResponse]

\* json.dumps raises TypeError on a datetime value; everything else in the
\* payloads here is a str, a number or a bool.
JsonSerializable(d) == d.created_at.kind # "datetime"

\* FastAPI serialises the returned TransactionResponse: datetime -> ISO string.
JsonableEncoder(resp) ==
    [resp EXCEPT !.created_at = IF @.kind = "datetime" THEN IsoString(@) ELSE @]

\* A replay that stamps the response anew instead of keeping the cached timestamp.
ParseResponseStampedAnew(d) == [d EXCEPT !.created_at = DateTime("local")]

\* TransactionResponse(**cached_response): pydantic parses the ISO string.
ParseResponse(d) ==
    [d EXCEPT !.created_at = IF @.kind = "str" THEN DateTime(@.src) ELSE @]

\* TransactionRequest.amount: Field(gt=0).
validate_amount_nonnegative(v) == v >= 0

\* TransactionRequest.amount: Field(gt=0) and the validator of the same meaning.
validate_amount(v) == v > 0

\* TransactionRequest(**body): idempotency_key is required, amount is validated.
\* (user_id is always given here.)
ValidRequest(body) ==
    /\ body.idempotency_key # Missing
    /\ validate_amount(body.amount)

\* generate_request_hash: sha256 over json.dumps(body, sort_keys=True); modelled
\* as the value list in sorted key order (sha256 taken to be collision-free).
generate_request_hash(request_body) ==
    <<request_body.amount, request_body.idempotency_key, request_body.user_id>>

\* ------------------------------------------------------------ rule engine
\* Python values as the rule engine meets them: a number, a str (its
\* characters), None, or a list of numbers and strs (JSON arrays of a rule).
Num(n) == [type |-> "num", num |-> n, str |-> <<>>, items |-> <<>>]
Str(chars) == [type |-> "str", num |-> 0, str |-> chars, items |-> <<>>]
None == [type |-> "None", num |-> 0, str |-> <<>>, items |-> <<>>]
List(items) == [type |-> "list", num |-> 0, str |-> <<>>, items |-> items]

\* a == b in Python, for these values
PyEq(a, b) ==
    /\ a.type = b.type
    /\ a.num = b.num
    /\ a.str = b.str
    /\ a.items = b.items

\* ord(c) for the characters that occur
Ord(c) ==
    CASE c = "0" -> 48 [] c = "4" -> 52 [] c = "5" -> 53 [] c = "6" -> 54
      [] c = "N" -> 78 [] c = "Y" -> 89 [] c = "u" -> 117 [] c = "1" -> 49
      [] OTHER -> 0

IsDigit(c) == Ord(c) >= 48 /\ Ord(c) <= 57

RECURSIVE StrLess(_, _)
\* s < t for two strs: lexicographic by code point
StrLess(s, t) ==
    IF t = <<>> THEN FALSE
    ELSE IF s = <<>> THEN TRUE
    ELSE IF Ord(Head(s)) # Ord(Head(t)) THEN Ord(Head(s)) < Ord(Head(t))
    ELSE StrLess(Tail(s), Tail(t))

\* b in a, for two strs: b is a substring of a
Substring(b, a) ==
    \E i \in 0..Len(a) :
        /\ i + Len(b) <= Len(a)
        /\ \A j \in 1..Len(b) : a[i + j] = b[j]

\* float(s) succeeds (a plain run of digits is all that occurs here)
FloatParses(chars) == chars # <<>> /\ \A i \in 1..Len(chars) : IsDigit(chars[i])

RECURSIVE Float(_)
\* float(s) for such a str
Float(chars) ==
    IF chars = <<>> THEN 0
    ELSE LET n == Len(chars)
         IN 10 * Float(SubSeq(chars, 1, n - 1)) + (Ord(chars[n]) - 48)

\* a < b raises TypeError unless both are numbers or both are strs
Orderable(a, b) == a.type = b.type /\ a.type \in {"num", "str"}

Less(a, b) == IF a.type = "num" THEN a.num < b.num ELSE StrLess(a.str, b.str)

\* a in b for a list b
InList(a, b) == \E i \in 1..Len(b.items) : PyEq(a, b.items[i])

Operators == {"==", "!=", ">", ">=", "<", "<=", "in", "not_in", "contains"}

\* The operator lambda raises TypeError for these operands (caught at rules.py:58).
OperatorRaises(operator, a, b) ==
    CASE operator \in {">", ">=", "<", "<="} -> ~Orderable(a, b)
      [] operator = "contains" -> a.type = "str" /\ b.type # "str"
      [] OTHER -> FALSE

\* The operator table with > read as >=.
CompareInclusive(operator, a, b) ==
    CASE operator = "==" -> PyEq(a, b)
      [] operator = "!=" -> ~PyEq(a, b)
      [] operator \in {">", ">="} -> Less(b, a) \/ PyEq(a, b)
      [] operator = "<"  -> Less(a, b)
      [] operator = "<=" -> Less(a, b) \/ PyEq(a, b)
      [] OTHER -> FALSE

\* The table `operators` of evaluate_condition, applied to operands that do
\* not make the lambda raise.  A transaction value is a number, a str or None.
Compare(operator, a, b) ==
    CASE operator = "==" -> PyEq(a, b)
      [] operator = "!=" -> ~PyEq(a, b)
      [] operator = ">"  -> Less(b, a)
      [] operator = ">=" -> Less(b, a) \/ PyEq(a, b)
      [] operator = "<"  -> Less(a, b)
      [] operator = "<=" -> Less(a, b) \/ PyEq(a, b)
      [] operator = "in" -> IF b.type = "list" THEN InList(a, b) ELSE FALSE
      [] operator = "not_in" -> IF b.type = "list" THEN ~InList(a, b) ELSE TRUE
      [] operator = "contains" ->
            IF a.type = "str" THEN Substring(b.str, a.str) ELSE FALSE
      [] OTHER -> FALSE

\* evaluate_condition: a leaf predicate {field, operator, value}.  A dict
\* without "field" gives field = None, which is no key of a transaction.
evaluate_condition(condition, transaction) ==
    LET field == condition.field
        operator == condition.operator
        value == condition.value
    IN
    IF "field" \notin DOMAIN condition THEN FALSE
    ELSE IF field \notin DOMAIN transaction THEN FALSE
    ELSE LET given == transaction[field]
             convert == value.type = "num" /\ given.type = "str"
         IN IF convert /\ ~FloatParses(given.str) THEN FALSE
            ELSE LET transaction_value == IF convert THEN Num(Float(given.str))
                                          ELSE given
                 IN IF operator \in Operators
                    THEN IF OperatorRaises(operator, transaction_value, value)
                         THEN FALSE
                         ELSE Compare(operator, transaction_value, value)
                    ELSE FALSE

\* str.upper() for the letters that occur
Upper(chars) ==
    [i \in 1..Len(chars) |->
        CASE chars[i] = "a" -> "A" [] chars[i] = "n" -> "N" [] chars[i] = "d" -> "D"
          [] chars[i] = "o" -> "O" [] chars[i] = "r" -> "R" [] OTHER -> chars[i]]

\* conditions.get("conditions", [])
ConditionList(conditions) ==
    IF "conditions" \in DOMAIN conditions THEN conditions.conditions ELSE <<>>

\* A sub-condition that is itself a combinator evaluated through its own list.
evaluate_sub_condition_nested(cond, transaction) ==
    IF "logic" \in DOMAIN cond /\ cond.logic.type = "str"
    THEN LET logic == Upper(cond.logic.str)
             condition_list == ConditionList(cond)
         IN IF logic = <<"A", "N", "D">>
            THEN \A i \in 1..Len(condition_list) :
                     evaluate_condition(condition_list[i], transaction)
            ELSE IF logic = <<"O", "R">>
            THEN \E i \in 1..Len(condition_list) :
                     evaluate_condition(condition_list[i], transaction)
            ELSE FALSE
    ELSE evaluate_condition(cond, transaction)

\* self.evaluate_condition(cond, transaction) for cond in condition_list
evaluate_sub_condition(cond, transaction) == evaluate_condition(cond, transaction)

\* conditions.get("logic", "AND").upper() raises AttributeError when the logic
\* value is not a str; nothing in evaluate_conditions catches it.
ConditionsRaise(conditions) ==
    "logic" \in DOMAIN conditions /\ conditions.logic.type # "str"

\* evaluate_conditions, for conditions on which it does not raise
evaluate_conditions(conditions, transaction) ==
    IF "logic" \in DOMAIN conditions
    THEN LET logic == Upper(conditions.logic.str)
             condition_list == ConditionList(conditions)
         IN IF logic = <<"A", "N", "D">>
            THEN \A i \in 1..Len(condition_list) :
                     evaluate_sub_condition(condition_list[i], transaction)
            ELSE IF logic = <<"O", "R">>
            THEN \E i \in 1..Len(condition_list) :
                     evaluate_sub_condition(condition_list[i], transaction)
            ELSE FALSE
    ELSE evaluate_condition(conditions, transaction)

RECURSIVE SetSum(_)
\* The scores added up instead of the largest taken.
SetSum(S) ==
    IF S = {} THEN 0
    ELSE LET x == CHOOSE y \in S : TRUE IN x + SetSum(S \ {x})

SetMax(S) == CHOOSE x \in S : \A y \in S : y <= x

\* actions.get("risk_score", 0.5), actions being rule.rule_actions or {}
RiskScoreOf(rule) ==
    IF "risk_score" \in DOMAIN rule.rule_actions
    THEN rule.rule_actions.risk_score
    ELSE DEFAULT_RISK_SCORE

Min(a, b) == IF a <= b THEN a ELSE b

\* evaluate_transaction raises when evaluate_conditions raises on a loaded rule.
EvaluationRaises(rules, transaction) ==
    \E r \in rules : r.is_active /\ ConditionsRaise(r.rule_condition)

\* evaluate_transaction: max risk_score over the triggered active rules
evaluate_transaction(rules, transaction) ==
    LET triggered == {r \in rules : r.is_active
                                    /\ evaluate_conditions(r.rule_condition, transaction)}
        rule_score == SetMax({0} \cup {RiskScoreOf(r) : r \in triggered})
    IN  Min(rule_score, 100)

\* The rules an administrator may create (scripts/create_rule.py's example first).
RuleTemplates ==
    { [rule_name |-> "High Amount",
       rule_condition |-> [field |-> "amount", operator |-> ">", value |-> Num(5000)],
       rule_actions |-> [risk_score |-> 80, flag |-> TRUE],
       is_active |-> TRUE, priority |-> 10] }

\* --------------------------------------------------------- anomaly scorer
ExpScale == 100 * 100

RECURSIVE ExpTerms(_, _, _)
\* sum of the Taylor terms x^k/k! for k >= n, x in hundredths, scaled by ExpScale
ExpTerms(x, n, term) ==
    IF term = 0 \/ n > 24 THEN 0
    ELSE term + ExpTerms(x, n + 1, (term * x) \div (100 * (n + 1)))

Exp(x) == ExpTerms(x, 0, ExpScale)

\* The sigmoid of the negated decision value: 1 / (1 + exp(-decision_score)).
SigmoidRising(d) ==
    IF d >= 0
    THEN LET e == Exp(d) IN (100 * e + (ExpScale + e) \div 2) \div (ExpScale + e)
    ELSE LET e == Exp(-d) IN (100 * ExpScale + (ExpScale + e) \div 2) \div (ExpScale + e)

\* risk_score = 1.0 / (1.0 + np.exp(decision_score)), rounded to hundredths
Sigmoid(d) ==
    IF d >= 0
    THEN LET e == Exp(d) IN (100 * ExpScale + (ExpScale + e) \div 2) \div (ExpScale + e)
    ELSE LET e == Exp(-d) IN (100 * e + (ExpScale + e) \div 2) \div (ExpScale + e)

\* --------------------------------------------------------- decision fusion
\* The two scores added without their weights.
FinalRiskScoreUnweighted(rule, ml) == (rule + ml) * 10

FinalRiskScore(rule, ml) == rule * RULE_WEIGHT + ml * ML_WEIGHT

\* The fraud threshold taken inclusively.
IsFraudInclusive(final) == final >= FRAUD_THRESHOLD

IsFraud(final) == final > FRAUD_THRESHOLD

IsApproved(final) == final < APPROVAL_THRESHOLD

StatusOf(approved) == IF approved THEN "approved" ELSE "declined"

\* ------------------------------------------------------------------ state
VARIABLES
    faults,             \* whether dependencies may fail in this run (never changes)
    started,            \* the startup hook has run
    model,              \* FraudModelScorer.model: "None" or "loaded"
    loads,              \* history: how many times a model was loaded or built
    now,                \* wall clock, seconds
    ticks,              \* clock advances so far (bounded by MaxTicks)
    fraud_rules,        \* table fraud_rules
    ledger,             \* table transactions
    idempotency_keys,   \* table idempotency_keys
    redis_idem,         \* Redis keys idempotency:<key>
    redis_profile,      \* Redis keys user_profile:<user_id>
    tasks,              \* tasks submitted to the Celery queue
    pc,                 \* each request's position in process_transaction
    txn,                \* each request's TransactionRequest
    rule_score, ml_score, final_risk_score, is_fraud, is_approved, created_at,
    outcome,            \* what the caller receives: HTTP status and JSON body
    prior,              \* history: the requests answered before this one arrived
    call,               \* the arguments of a function called on its own
    result              \* what that call returned

vars == <<faults, started, model, loads, now, ticks, fraud_rules, ledger, idempotency_keys,
          redis_idem, redis_profile, tasks, pc, txn, rule_score, ml_score,
          final_risk_score, is_fraud, is_approved, created_at, outcome, prior,
          call, result>>

stores == <<fraud_rules, ledger, idempotency_keys, redis_idem, redis_profile, tasks>>
locals == <<rule_score, ml_score, final_risk_score, is_fraud, is_approved, created_at>>
clock == <<now, ticks>>
harness == <<call, result>>
system == <<faults, started, model, loads, clock, stores, pc, txn, locals, outcome, prior>>

\* The caller-visible transaction id: uuid4() is fresh for every request that
\* reaches it, so the request's own number stands for it.
NewTransactionId(p) == p

DefaultProfile ==
    [risk_score |-> 10, home_location |-> "None",
     average_transaction_amount |-> 0, transaction_count |-> 0]

NoCall == [function |-> "none"]
NoResult == [returned |-> FALSE]

InitLocals ==
    /\ pc = [p \in Reqs |-> "idle"]
    /\ txn = [p \in Reqs |-> NoTxn]
    /\ rule_score = [p \in Reqs |-> 0]
    /\ ml_score = [p \in Reqs |-> 0]
    /\ final_risk_score = [p \in Reqs |-> 0]
    /\ is_fraud = [p \in Reqs |-> FALSE]
    /\ is_approved = [p \in Reqs |-> FALSE]
    /\ created_at = [p \in Reqs |-> NoTime]
    /\ outcome = [p \in Reqs |-> NoOutcome]
    /\ prior = [p \in Reqs |-> {}]

\* A fresh deployment: empty tables, empty cache, empty queue, model not loaded.
Init ==
    /\ faults = TRUE
    /\ started = FALSE
    /\ model = "None"
    /\ loads = 0
    /\ now = 0
    /\ ticks = 0
    /\ fraud_rules = {}
    /\ ledger = {}
    /\ idempotency_keys = {}
    /\ redis_idem = {}
    /\ redis_profile = {}
    /\ tasks = {}
    /\ call = NoCall
    /\ result = NoResult
    /\ InitLocals

\* The outcomes of a call to a dependency (database, cache, broker, model
\* file): TRUE it answers, FALSE it raises.
Up == IF faults THEN BOOLEAN ELSE {TRUE}

\* ------------------------------------------------------------ environment
\* startup_event: load_model() inside try/except; a failure leaves model None.
StartupEvent ==
    /\ ~started
    /\ started' = TRUE
    /\ \E ok \in Up :
         /\ model' = IF ok THEN "loaded" ELSE "None"
         /\ loads' = IF ok THEN loads + 1 ELSE loads
    /\ UNCHANGED <<faults, harness, clock, stores, pc, txn, locals, outcome, prior>>

\* d seconds pass.  Redis drops the keys whose TTL has run out.
Elapse(d) ==
    /\ started
    /\ ticks < MaxTicks
    /\ now' = now + d
    /\ redis_idem' = {e \in redis_idem : e.expires > now + d}
    /\ redis_profile' = {e \in redis_profile : e.expires > now + d}
    /\ ticks' = ticks + 1
    /\ UNCHANGED <<faults, loads, harness, started, model, fraud_rules, ledger, idempotency_keys, tasks,
                   pc, txn, locals, outcome, prior>>

Tick == \E d \in TickSteps : Elapse(d)

\* A lookup that never finds the name.
RuleNameNeverExists(rule_name) == FALSE

\* select(FraudRule).where(FraudRule.rule_name == rule.rule_name)
RuleNameExists(rule_name) == \E r \in fraud_rules : r.rule_name = rule_name

\* The unique constraint on fraud_rules.rule_name.
FraudRulesAccepts(rule) == ~ \E r \in fraud_rules : r.rule_name = rule.rule_name

\* The HTTP status of POST /rules: 409 from the handler's own check, 500 when
\* the database cannot be reached or the commit fails, else 201.
CreateRuleStatus(rule, dbUp) ==
    IF ~dbUp THEN 500
    ELSE IF RuleNameExists(rule.rule_name) THEN 409
    ELSE IF ~FraudRulesAccepts(rule) THEN 500
    ELSE 201

\* create_fraud_rule: 409 when the name exists, else insert.
create_fraud_rule(rule) ==
    /\ started
    /\ CreateRuleStatus(rule, TRUE) = 201
    /\ fraud_rules' = fraud_rules \cup {rule}
    /\ UNCHANGED <<faults, loads, harness, started, model, clock, ledger, idempotency_keys, redis_idem,
                   redis_profile, tasks, pc, txn, locals, outcome, prior>>

\* ------------------------------------------------------ process_transaction
Answered == {q \in Reqs : pc[q] = "done"}

\* Key names are interchangeable: a request carries a key some earlier request
\* carried, or the first key none has carried yet.
FirstKeys(used) ==
    (Keys \cap used)
        \cup {k \in Keys \ used : \A j \in Keys \ used : KeyIndex(k) <= KeyIndex(j)}

\* A validated TransactionRequest arrives.  Requests are numbered in arrival order.
Submit(p, key, user, amount) ==
    /\ started
    /\ pc[p] = "idle"
    /\ \A q \in Reqs : q < p => pc[q] # "idle"
    /\ key \in FirstKeys({txn[q].idempotency_key : q \in Reqs}) \cup {Missing}
    /\ ValidRequest([idempotency_key |-> key, user_id |-> user, amount |-> amount])
    /\ txn' = [txn EXCEPT ![p] = [idempotency_key |-> key, user_id |-> user,
                                  amount |-> amount]]
    /\ prior' = [prior EXCEPT ![p] = Answered]
    /\ pc' = [pc EXCEPT ![p] = "check_cache"]
    /\ UNCHANGED <<faults, loads, harness, started, model, clock, stores, locals, outcome>>

\* Redis GET: a key whose TTL has run out is gone.
get_idempotency_response(key) ==
    {e \in redis_idem : e.key = key /\ e.expires > now}

\* Redis SETEX: replaces whatever the key held.
set_idempotency_response(key, response, ttl) ==
    {e \in redis_idem : e.key # key}
        \cup {[key |-> key, response |-> response, expires |-> now + ttl]}

Return(p, status, body) ==
    /\ outcome' = [outcome EXCEPT ![p] = [status |-> status, body |-> body]]
    /\ pc' = [pc EXCEPT ![p] = "done"]

Goto(p, label) ==
    /\ pc' = [pc EXCEPT ![p] = label]
    /\ UNCHANGED outcome

\* A body that TransactionRequest does not accept: FastAPI answers 422 and
\* process_transaction is never entered.
RequestValidationError(p, key, user, amount) ==
    /\ started
    /\ pc[p] = "idle"
    /\ \A q \in Reqs : q < p => pc[q] # "idle"
    /\ key \in FirstKeys({txn[q].idempotency_key : q \in Reqs}) \cup {Missing}
    /\ ~ValidRequest([idempotency_key |-> key, user_id |-> user, amount |-> amount])
    /\ txn' = [txn EXCEPT ![p] = [idempotency_key |-> key, user_id |-> user,
                                  amount |-> amount]]
    /\ prior' = [prior EXCEPT ![p] = Answered]
    /\ Return(p, 422, NoResponse)
    /\ UNCHANGED <<faults, loads, harness, started, model, clock, stores, locals>>

\* A failed cache lookup followed by the lookup in the table.
OnCacheRaisedAskStore(p) == Goto(p, "check_db")

\* get_idempotency_response raises inside check_idempotency_key: the exception
\* leaves it at once and process_transaction's except clause goes on.
OnCacheRaised(p) == Goto(p, "profile")

\* check_idempotency_key, first half: the cache lookup.  A cache failure raises,
\* and process_transaction's except clause continues with processing.
CheckCache(p) ==
    /\ pc[p] = "check_cache"
    /\ \E cacheUp \in Up :
         LET hit == get_idempotency_response(txn[p].idempotency_key) IN
         IF ~cacheUp THEN OnCacheRaised(p)
         ELSE IF hit # {}
         THEN Return(p, 200,
                     JsonableEncoder(ParseResponse((CHOOSE e \in hit : TRUE).response)))
         ELSE Goto(p, "check_db")
    /\ UNCHANGED <<faults, loads, harness, started, model, clock, stores, txn, locals, prior>>

\* check_idempotency_key, second half: the durable record.  `raised` tells what
\* the function does: return a response, return None, or raise.
IdempotencyRecord(key) == {r \in idempotency_keys : r.idempotency_key = key}

DbLookup(key, request_body) ==
    LET found == IdempotencyRecord(key) IN
    IF found = {} THEN "miss"
    ELSE LET record == CHOOSE r \in found : TRUE IN
         IF record.request_hash = generate_request_hash(request_body)
         THEN IF record.expires_at > now THEN "hit" ELSE "expired"
         ELSE "conflict"

\* process_transaction wraps the whole check in `except Exception`: whatever
\* check_idempotency_key raises, HTTPException(409) included, processing goes on.
OnCheckRaised(p, exc) == Goto(p, "profile")

CheckDb(p) ==
    /\ pc[p] = "check_db"
    /\ \E dbUp \in Up, cacheUp \in Up :
         LET key == txn[p].idempotency_key
             res == DbLookup(key, txn[p])
             record == CHOOSE r \in IdempotencyRecord(key) : TRUE
         IN
         IF ~dbUp
         THEN OnCheckRaised(p, "OperationalError")
              /\ UNCHANGED <<idempotency_keys, redis_idem>>
         ELSE CASE res = "miss" ->
                     Goto(p, "profile") /\ UNCHANGED <<idempotency_keys, redis_idem>>
                [] res = "hit" ->
                     IF cacheUp
                     THEN /\ redis_idem' = set_idempotency_response(
                                 key, record.response_data, IDEMPOTENCY_CACHE_TTL)
                          /\ Return(p, 200,
                                    JsonableEncoder(ParseResponse(record.response_data)))
                          /\ UNCHANGED idempotency_keys
                     ELSE OnCheckRaised(p, "ConnectionError")
                          /\ UNCHANGED <<idempotency_keys, redis_idem>>
                [] res = "expired" ->
                     /\ idempotency_keys' = idempotency_keys \ {record}
                     /\ Goto(p, "profile")
                     /\ UNCHANGED redis_idem
                [] res = "conflict" ->
                     OnCheckRaised(p, "HTTPException409")
                     /\ UNCHANGED <<idempotency_keys, redis_idem>>
    /\ UNCHANGED <<faults, loads, harness, started, model, clock, fraud_rules, ledger, redis_profile, tasks,
                   txn, locals, prior>>

\* get_user_profile / set_user_profile: the default profile is cached when the
\* cache holds none (or cannot be read); a failed write is only logged.
LoadProfile(p) ==
    /\ pc[p] = "profile"
    /\ \E getUp \in Up, setUp \in Up :
         LET user == txn[p].user_id
             cached == IF getUp
                       THEN {e \in redis_profile : e.user_id = user /\ e.expires > now}
                       ELSE {}
         IN redis_profile' =
              IF cached = {} /\ setUp
              THEN {e \in redis_profile : e.user_id # user}
                     \cup {[user_id |-> user, profile |-> DefaultProfile,
                            expires |-> now + REDIS_TTL]}
              ELSE redis_profile
    /\ Goto(p, "rules")
    /\ UNCHANGED <<faults, loads, harness, started, model, clock, fraud_rules, ledger, idempotency_keys,
                   redis_idem, tasks, txn, locals, prior>>

\* the str of a user id, as characters
UserChars(user) == IF user = "u1" THEN <<"u", "1">> ELSE <<"u">>

\* transaction_data: location and merchant_id are not sent (None);
\* transaction_type is left out, no rule here names it.
transaction_data(p) ==
    [amount |-> Num(txn[p].amount), location |-> None,
     user_id |-> Str(UserChars(txn[p].user_id)), merchant_id |-> None]

\* 1. Evaluate rules: a failure of the rule engine gives rule_score 0.0.
EvaluateRules(p) ==
    /\ pc[p] = "rules"
    /\ \E dbUp \in Up :
         rule_score' = [rule_score EXCEPT ![p] =
                          IF dbUp /\ ~EvaluationRaises(fraud_rules, transaction_data(p))
                          THEN evaluate_transaction(fraud_rules, transaction_data(p))
                          ELSE 0]
    /\ Goto(p, "score")
    /\ UNCHANGED <<faults, loads, harness, started, model, clock, stores, txn, ml_score, final_risk_score,
                   is_fraud, is_approved, created_at, prior>>

\* 3. and 4.: the weighted score and the two thresholds, from the two scores.
Fuse(p, rule, ml) ==
    LET final == FinalRiskScore(rule, ml) IN
    /\ final_risk_score' = [final_risk_score EXCEPT ![p] = final]
    /\ is_fraud' = [is_fraud EXCEPT ![p] = IsFraud(final)]
    /\ is_approved' = [is_approved EXCEPT ![p] = IsApproved(final)]

\* A scorer that loads the model on every call.
NeedsLoadAlways(m) == TRUE

\* if self.model is None: self.load_model()
NeedsLoad(m) == m = "None"

\* 2. model_scorer.score_transaction, called outside any try: when the lazy
\* load_model() raises, the exception leaves process_transaction (HTTP 500).
\* No await separates the scorer from the fusion: one step.
ScoreModel(p) ==
    /\ pc[p] = "score"
    /\ \E loadOk \in Up, decision_score \in DecisionValues :
         IF NeedsLoad(model) /\ ~loadOk
         THEN /\ Return(p, 500, NoResponse)
              /\ UNCHANGED <<model, loads, ml_score, final_risk_score, is_fraud,
                             is_approved>>
         ELSE /\ model' = "loaded"
              /\ loads' = IF NeedsLoad(model) THEN loads + 1 ELSE loads
              /\ ml_score' = [ml_score EXCEPT ![p] = Sigmoid(decision_score)]
              /\ Fuse(p, rule_score[p], Sigmoid(decision_score))
              /\ Goto(p, "persist")
    /\ UNCHANGED <<faults, harness, started, clock, stores, txn, rule_score, created_at, prior>>

\* The ledger without the unique constraint on idempotency_key.
LedgerAcceptsAnyKey(row) ==
    ~ \E r \in ledger : r.transaction_id = row.transaction_id

\* The unique constraints of table transactions.
LedgerAccepts(row) ==
    /\ ~ \E r \in ledger : r.idempotency_key = row.idempotency_key
    /\ ~ \E r \in ledger : r.transaction_id = row.transaction_id

\* Create transaction record; any failure falls back to a local timestamp.
Persist(p) ==
    /\ pc[p] = "persist"
    /\ \E dbUp \in Up :
         LET row == [transaction_id |-> NewTransactionId(p),
                     user_id |-> txn[p].user_id,
                     amount |-> txn[p].amount,
                     final_risk_score |-> final_risk_score[p],
                     is_fraud |-> is_fraud[p],
                     is_approved |-> is_approved[p],
                     idempotency_key |-> txn[p].idempotency_key]
         IN IF dbUp /\ LedgerAccepts(row)
            THEN /\ ledger' = ledger \cup {row}
                 /\ created_at' = [created_at EXCEPT ![p] = DateTime("db")]
            ELSE /\ ledger' = ledger
                 /\ created_at' = [created_at EXCEPT ![p] = DateTime("local")]
    /\ Goto(p, "store")
    /\ UNCHANGED <<faults, loads, harness, started, model, clock, fraud_rules, idempotency_keys, redis_idem,
                   redis_profile, tasks, txn, rule_score, ml_score, final_risk_score,
                   is_fraud, is_approved, prior>>

\* TransactionResponse(...) as built by process_transaction
response_data(p) ==
    [transaction_id |-> NewTransactionId(p),
     status |-> StatusOf(is_approved[p]),
     is_fraud |-> is_fraud[p],
     risk_score |-> final_risk_score[p],
     rule_score |-> rule_score[p],
     ml_score |-> ml_score[p],
     created_at |-> created_at[p]]

\* store_idempotency_key(db, key, request_body, response_data.dict()): the row
\* goes to the JSON column on commit, then the cache; either raising is logged
\* by process_transaction and nothing more.
StoreIdempotency(p) ==
    /\ pc[p] = "store"
    /\ \E dbUp \in Up, cacheUp \in Up :
         LET key == txn[p].idempotency_key
             data == response_data(p)
             record == [idempotency_key |-> key,
                        request_hash |-> generate_request_hash(txn[p]),
                        response_data |-> data,
                        expires_at |-> now + TTL_HOURS * 3600]
             committed == /\ dbUp
                          /\ JsonSerializable(data)
                          /\ IdempotencyRecord(key) = {}
         IN /\ idempotency_keys' =
                 IF committed THEN idempotency_keys \cup {record} ELSE idempotency_keys
            /\ redis_idem' =
                 IF committed /\ cacheUp /\ JsonSerializable(data)
                 THEN set_idempotency_response(key, data, TTL_HOURS * 3600)
                 ELSE redis_idem
    /\ Goto(p, "notify")
    /\ UNCHANGED <<faults, loads, harness, started, model, clock, fraud_rules, ledger, redis_profile, tasks,
                   txn, locals, prior>>

\* An alert for every transaction, flagged or not.
AlertAlways(p) == TRUE

\* if is_fraud: send_fraud_alert_email.delay(...)
AlertDue(p) == is_fraud[p]

\* The two .delay() calls and the return.  A .delay() that cannot reach the
\* broker raises, and nothing catches it.
Notify(p) ==
    /\ pc[p] = "notify"
    /\ \E alertUp \in Up, updateUp \in Up :
         LET alert == [kind |-> "send_fraud_alert_email", user_id |-> txn[p].user_id,
                       by |-> p]
             update == [kind |-> "update_user_profile", user_id |-> txn[p].user_id,
                        by |-> p]
         IN IF AlertDue(p) /\ ~alertUp
            THEN /\ tasks' = tasks
                 /\ Return(p, 500, NoResponse)
            ELSE IF ~updateUp
            THEN /\ tasks' = tasks \cup (IF AlertDue(p) THEN {alert} ELSE {})
                 /\ Return(p, 500, NoResponse)
            ELSE /\ tasks' = tasks \cup (IF AlertDue(p) THEN {alert} ELSE {}) \cup {update}
                 /\ Return(p, 200, JsonableEncoder(response_data(p)))
    /\ UNCHANGED <<faults, loads, harness, started, model, clock, fraud_rules, ledger, idempotency_keys,
                   redis_idem, redis_profile, txn, locals, prior>>

Next ==
    \/ StartupEvent
    \/ Tick
    \/ \E rule \in RuleTemplates : create_fraud_rule(rule)
    \/ \E p \in Reqs, key \in RawKeys, user \in Users, amount \in RawAmounts :
          Submit(p, key, user, amount)
    \/ \E p \in Reqs, key \in RawKeys, user \in Users, amount \in RawAmounts :
          RequestValidationError(p, key, user, amount)
    \/ \E p \in Reqs : CheckCache(p)
    \/ \E p \in Reqs : CheckDb(p)
    \/ \E p \in Reqs : LoadProfile(p)
    \/ \E p \in Reqs : EvaluateRules(p)
    \/ \E p \in Reqs : ScoreModel(p)
    \/ \E p \in Reqs : Persist(p)
    \/ \E p \in Reqs : StoreIdempotency(p)
    \/ \E p \in Reqs : Notify(p)

Spec == Init /\ [][Next]_vars

\* The same deployment with every dependency available throughout.
HealthyInit ==
    /\ faults = FALSE
    /\ started = FALSE
    /\ model = "None"
    /\ loads = 0
    /\ now = 0
    /\ ticks = 0
    /\ fraud_rules = {}
    /\ ledger = {}
    /\ idempotency_keys = {}
    /\ redis_idem = {}
    /\ redis_profile = {}
    /\ tasks = {}
    /\ call = NoCall
    /\ result = NoResult
    /\ InitLocals

SpecHealthy == HealthyInit /\ [][Next]_vars

\* ------------------------------------------------- fusion on every score pair
\* The fusion statements of process_transaction applied to every pair of scores
\* in [0,1]: request 1 stands right before them with the two scores given.
FusionInit ==
    /\ faults = TRUE
    /\ started = TRUE
    /\ model = "loaded"
    /\ loads = 1
    /\ now = 0
    /\ ticks = 0
    /\ fraud_rules = {}
    /\ ledger = {}
    /\ idempotency_keys = {}
    /\ redis_idem = {}
    /\ redis_profile = {}
    /\ tasks = {}
    /\ call = NoCall
    /\ result = NoResult
    /\ pc = [p \in Reqs |-> IF p = 1 THEN "fuse" ELSE "idle"]
    /\ txn = [p \in Reqs |-> NoTxn]
    /\ \E rule \in Scores : rule_score = [p \in Reqs |-> IF p = 1 THEN rule ELSE 0]
    /\ \E ml \in Scores : ml_score = [p \in Reqs |-> IF p = 1 THEN ml ELSE 0]
    /\ final_risk_score = [p \in Reqs |-> 0]
    /\ is_fraud = [p \in Reqs |-> FALSE]
    /\ is_approved = [p \in Reqs |-> FALSE]
    /\ created_at = [p \in Reqs |-> NoTime]
    /\ outcome = [p \in Reqs |-> NoOutcome]
    /\ prior = [p \in Reqs |-> {}]

FuseOnly(p) ==
    /\ pc[p] = "fuse"
    /\ Fuse(p, rule_score[p], ml_score[p])
    /\ Goto(p, "fused")
    /\ UNCHANGED <<faults, loads, harness, started, model, clock, stores, txn, rule_score, ml_score,
                   created_at, prior>>

NextFusion == \E p \in Reqs : FuseOnly(p)

SpecFusion == FusionInit /\ [][NextFusion]_vars

\* ------------------------------------------- stores that already hold a result
\* The durable store and the cache outlive the application.  Here they already
\* hold, for key k1, the result of an earlier transaction (id 0) in JSON form,
\* in the table, in the cache, or in both; the ledger holds its row.
SeedTxn == [idempotency_key |-> "k1", user_id |-> "u1", amount |-> 100]

SeedResponse ==
    [transaction_id |-> 0, status |-> "approved", is_fraud |-> FALSE,
     risk_score |-> 300, rule_score |-> 0, ml_score |-> 50,
     created_at |-> IsoString(DateTime("db"))]

SeedRecord ==
    [idempotency_key |-> SeedTxn.idempotency_key,
     request_hash |-> generate_request_hash(SeedTxn),
     response_data |-> SeedResponse,
     expires_at |-> TTL_HOURS * 3600]

SeedCacheEntry ==
    [key |-> SeedTxn.idempotency_key, response |-> SeedResponse,
     expires |-> TTL_HOURS * 3600]

SeedRow ==
    [transaction_id |-> 0, user_id |-> SeedTxn.user_id, amount |-> SeedTxn.amount,
     final_risk_score |-> 300, is_fraud |-> FALSE, is_approved |-> TRUE,
     idempotency_key |-> SeedTxn.idempotency_key]

SeededInit ==
    /\ faults = TRUE
    /\ started = FALSE
    /\ model = "None"
    /\ loads = 0
    /\ now = 0
    /\ ticks = 0
    /\ fraud_rules = {}
    /\ ledger = {SeedRow}
    /\ idempotency_keys \in {{SeedRecord}, {}}
    /\ redis_idem \in {{SeedCacheEntry}, {}}
    /\ idempotency_keys \cup redis_idem # {}
    /\ redis_profile = {}
    /\ tasks = {}
    /\ call = NoCall
    /\ result = NoResult
    /\ InitLocals

SpecSeeded == SeededInit /\ [][Next]_vars

\* ------------------------------------------- a stored result close to expiry
\* The record of key k1 was stored 23.5 hours ago: it expires half an hour from
\* now.  The cache holds the entry written with it (same expiry) or has lost
\* it (eviction, restart).  Every dependency is available; time advances by
\* half an hour or an hour.
AgedRecord == [SeedRecord EXCEPT !.expires_at = IDEMPOTENCY_CACHE_TTL \div 2]

ExpiryInit ==
    /\ faults = FALSE
    /\ started = FALSE
    /\ model = "None"
    /\ loads = 0
    /\ now = 0
    /\ ticks = 0
    /\ fraud_rules = {}
    /\ ledger = {SeedRow}
    /\ idempotency_keys = {AgedRecord}
    /\ redis_idem \in {{[SeedCacheEntry EXCEPT !.expires = AgedRecord.expires_at]}, {}}
    /\ redis_profile = {}
    /\ tasks = {}
    /\ call = NoCall
    /\ result = NoResult
    /\ InitLocals

NextExpiry ==
    \/ StartupEvent
    \/ \E d \in {IDEMPOTENCY_CACHE_TTL \div 2, IDEMPOTENCY_CACHE_TTL} : Elapse(d)
    \/ \E rule \in RuleTemplates : create_fraud_rule(rule)
    \/ \E p \in Reqs, key \in RawKeys, user \in Users, amount \in RawAmounts :
          Submit(p, key, user, amount)
    \/ \E p \in Reqs, key \in RawKeys, user \in Users, amount \in RawAmounts :
          RequestValidationError(p, key, user, amount)
    \/ \E p \in Reqs : CheckCache(p)
    \/ \E p \in Reqs : CheckDb(p)
    \/ \E p \in Reqs : LoadProfile(p)
    \/ \E p \in Reqs : EvaluateRules(p)
    \/ \E p \in Reqs : ScoreModel(p)
    \/ \E p \in Reqs : Persist(p)
    \/ \E p \in Reqs : StoreIdempotency(p)
    \/ \E p \in Reqs : Notify(p)

SpecExpiry == ExpiryInit /\ [][NextExpiry]_vars

\* ------------------------------------------------ functions called on their own
\* The application at rest while one function is called with given arguments.
Standstill ==
    /\ faults = FALSE
    /\ started = TRUE
    /\ model = "loaded"
    /\ loads = 1
    /\ now = 0
    /\ ticks = 0
    /\ fraud_rules = {}
    /\ ledger = {}
    /\ idempotency_keys = {}
    /\ redis_idem = {}
    /\ redis_profile = {}
    /\ tasks = {}
    /\ InitLocals

\* Leaf predicates and transactions for evaluate_condition.  merchant_id is in
\* no transaction; "between" is no operator of the engine.
ConditionFields == {"amount", "location", "merchant_id"}
ConditionOperators == Operators \cup {"between"}
ConditionValues ==
    {Num(5000), Str(<<"N">>), None, List(<<Num(6000), Str(<<"N", "Y">>)>>)}
ConditionTransactions ==
    { [amount |-> Num(6000), location |-> Str(<<"N", "Y">>)],
      [amount |-> Num(5000), location |-> Str(<<"N">>)],
      [amount |-> Num(4000), location |-> None],
      [amount |-> Str(<<"6", "0", "0", "0">>), location |-> Str(<<>>)] }

ConditionInit ==
    /\ call \in {[function |-> "evaluate_condition",
                   condition |-> [field |-> f, operator |-> o, value |-> v],
                   transaction |-> t] :
                      f \in ConditionFields, o \in ConditionOperators,
                      v \in ConditionValues, t \in ConditionTransactions}
    /\ result = NoResult
    /\ Standstill

EvaluateCondition ==
    /\ call.function = "evaluate_condition"
    /\ ~result.returned
    /\ result' = [returned |-> TRUE,
                  value |-> evaluate_condition(call.condition, call.transaction)]
    /\ UNCHANGED <<system, call>>

NextCondition == EvaluateCondition

SpecCondition == ConditionInit /\ [][NextCondition]_vars

\* evaluate_conditions on its own: leaf predicates, combinators over up to two
\* sub-conditions (leaves or combinators), logic values of every JSON type.
LeafConditions ==
    { [field |-> "amount", operator |-> ">", value |-> Num(5000)],
      [field |-> "location", operator |-> "==", value |-> Str(<<"N">>)],
      [field |-> "merchant_id", operator |-> "==", value |-> None] }

NestedConditions ==
    { [logic |-> Str(<<"A", "N", "D">>),
       conditions |-> <<[field |-> "amount", operator |-> ">", value |-> Num(5000)]>>],
      [logic |-> Str(<<"O", "R">>),
       conditions |-> <<[field |-> "amount", operator |-> ">", value |-> Num(5000)],
                        [field |-> "location", operator |-> "==",
                         value |-> Str(<<"N">>)]>>] }

LogicValues ==
    {Str(<<"A", "N", "D">>), Str(<<"a", "n", "d">>), Str(<<"O", "R">>),
     Str(<<"O", "r">>), Str(<<"X", "O", "R">>), Str(<<>>), None, Num(1)}

CombinatorConditions ==
    {[logic |-> l, conditions |-> cs] :
        l \in LogicValues,
        cs \in UNION {[1..n -> LeafConditions \cup NestedConditions] : n \in 0..2}}
        \cup {[logic |-> l] : l \in LogicValues}

CombinatorInit ==
    /\ call \in {[function |-> "evaluate_conditions", conditions |-> c,
                   transaction |-> t] :
                      c \in LeafConditions \cup CombinatorConditions,
                      t \in ConditionTransactions}
    /\ result = NoResult
    /\ Standstill

EvaluateConditions ==
    /\ call.function = "evaluate_conditions"
    /\ ~result.returned
    /\ result' = IF ConditionsRaise(call.conditions)
                 THEN [returned |-> TRUE, raised |-> TRUE, value |-> FALSE]
                 ELSE [returned |-> TRUE, raised |-> FALSE,
                       value |-> evaluate_conditions(call.conditions, call.transaction)]
    /\ UNCHANGED <<system, call>>

NextCombinator == EvaluateConditions

SpecCombinator == CombinatorInit /\ [][NextCombinator]_vars

\* Rules an administrator may submit: two of one name, one without a
\* risk_score, scores outside [0,1], one inactive.
RulePool ==
    RuleTemplates \cup
    { [rule_name |-> "High Amount",
       rule_condition |-> [field |-> "amount", operator |-> ">", value |-> Num(50)],
       rule_actions |-> [risk_score |-> 30, flag |-> FALSE],
       is_active |-> TRUE, priority |-> 0],
      [rule_name |-> "Any Amount",
       rule_condition |-> [field |-> "amount", operator |-> ">", value |-> Num(0)],
       rule_actions |-> [flag |-> TRUE],
       is_active |-> TRUE, priority |-> 0],
      [rule_name |-> "Very High Amount",
       rule_condition |-> [field |-> "amount", operator |-> ">=", value |-> Num(6000)],
       rule_actions |-> [risk_score |-> 90, flag |-> TRUE],
       is_active |-> TRUE, priority |-> 5],
      [rule_name |-> "Over One",
       rule_condition |-> [field |-> "amount", operator |-> ">=", value |-> Num(6000)],
       rule_actions |-> [risk_score |-> 150, flag |-> TRUE],
       is_active |-> TRUE, priority |-> 1],
      [rule_name |-> "Below Zero",
       rule_condition |-> [field |-> "amount", operator |-> "<", value |-> Num(5000)],
       rule_actions |-> [risk_score |-> -20, flag |-> FALSE],
       is_active |-> TRUE, priority |-> 2],
      [rule_name |-> "Switched Off",
       rule_condition |-> [field |-> "amount", operator |-> ">", value |-> Num(0)],
       rule_actions |-> [risk_score |-> 100, flag |-> TRUE],
       is_active |-> FALSE, priority |-> 20] }

RuleTransactions ==
    { [amount |-> Num(100), location |-> None],
      [amount |-> Num(6000), location |-> None] }

\* POST /rules with its response.
CreateFraudRuleCall(rule) ==
    /\ started
    /\ \E dbUp \in Up :
         LET status == CreateRuleStatus(rule, dbUp)
         IN /\ fraud_rules' = IF status = 201 THEN fraud_rules \cup {rule}
                                               ELSE fraud_rules
            /\ call' = [function |-> "create_fraud_rule", rule |-> rule]
            /\ result' = [returned |-> TRUE, status |-> status]
    /\ UNCHANGED <<faults, loads, started, model, clock, ledger, idempotency_keys, redis_idem,
                   redis_profile, tasks, pc, txn, locals, outcome, prior>>

\* RuleEngine(db).evaluate_transaction(transaction) on the rules of the table.
EvaluateTransaction(transaction) ==
    /\ started
    /\ call' = [function |-> "evaluate_transaction", transaction |-> transaction]
    /\ result' = [returned |-> TRUE,
                  value |-> evaluate_transaction(fraud_rules, transaction)]
    /\ UNCHANGED system

NextRules ==
    \/ \E rule \in RulePool : CreateFraudRuleCall(rule)
    \/ \E transaction \in RuleTransactions : EvaluateTransaction(transaction)

RulesInit ==
    /\ call = NoCall
    /\ result = NoResult
    /\ Standstill

SpecRules == RulesInit /\ [][NextRules]_vars

\* score_transaction on its own: two calls for which the model's
\* decision_function gives the two values of the call (hundredths; the model is
\* opaque, the features reach the score only through it).
ScorerDecisions == {50 * k : k \in -6..6} \cup DecisionValues \cup {-1, 1}

ScorerInit ==
    /\ call \in {[function |-> "score_transaction", decision_scores |-> <<d1, d2>>] :
                      d1 \in ScorerDecisions, d2 \in ScorerDecisions}
    /\ result = NoResult
    /\ Standstill

ScoreTransaction ==
    /\ call.function = "score_transaction"
    /\ ~result.returned
    /\ model = "loaded"
    /\ result' = [returned |-> TRUE,
                  value |-> <<Sigmoid(call.decision_scores[1]),
                              Sigmoid(call.decision_scores[2])>>]
    /\ UNCHANGED <<system, call>>

NextScorer == ScoreTransaction

SpecScorer == ScorerInit /\ [][NextScorer]_vars

\* ------------------------------------------------------- extract_features
\* The feature vector, with deviation and frequency in thousandths.  A location
\* or home_location of None is the str "None" here; None and "" are falsy.
\* hour and day_of_week come from datetime.now().
\* a / b rounded to thousandths, for b > 0
Thousandths(a, b) == (1000 * a + b \div 2) \div b

NoUserProfile == [none |-> TRUE]

\* if user_profile:
HasProfile(user_profile) == user_profile # NoUserProfile

\* The count divided by the cap without the clamp.
FrequencyUnclamped(tx_count) == Thousandths(tx_count, MAX_TRANSACTIONS)

\* frequency = min(tx_count / 1000.0, 1.0)
Frequency(tx_count) == Min(Thousandths(tx_count, MAX_TRANSACTIONS), 1000)

extract_features(transaction, user_profile, hour, day_of_week) ==
    LET amount == transaction.amount
        avg_amount == IF "average_transaction_amount" \in DOMAIN user_profile
                      THEN user_profile.average_transaction_amount
                      ELSE amount
        deviation == IF HasProfile(user_profile)
                     THEN IF avg_amount > 0
                          THEN Thousandths(IF amount >= avg_amount
                                           THEN amount - avg_amount
                                           ELSE avg_amount - amount, avg_amount)
                          ELSE 1000
                     ELSE 1000
        home_location == IF "home_location" \in DOMAIN user_profile
                         THEN user_profile.home_location
                         ELSE "None"
        location_different ==
            IF HasProfile(user_profile)
            THEN IF home_location \notin {"None", ""}
                  /\ transaction.location # home_location
                 THEN 1 ELSE 0
            ELSE 0
        tx_count == IF "transaction_count" \in DOMAIN user_profile
                    THEN user_profile.transaction_count
                    ELSE 0
        frequency == IF HasProfile(user_profile) THEN Frequency(tx_count) ELSE 0
    IN <<amount, hour, day_of_week, deviation, location_different, frequency>>

FeatureProfiles ==
    { NoUserProfile,
      DefaultProfile,
      [risk_score |-> 10],
      [risk_score |-> 10, home_location |-> "NY",
       average_transaction_amount |-> 50, transaction_count |-> 10],
      [risk_score |-> 10, home_location |-> "LA",
       average_transaction_amount |-> 100, transaction_count |-> 1000],
      [risk_score |-> 10, home_location |-> "",
       average_transaction_amount |-> 6000, transaction_count |-> 2500],
      [risk_score |-> 10, home_location |-> "NY",
       average_transaction_amount |-> -50, transaction_count |-> 999] }

FeatureTransactions ==
    {[amount |-> a, location |-> l] : a \in Amounts \cup {50}, l \in {"None", "NY", "LA"}}

FeaturesInit ==
    /\ call \in {[function |-> "extract_features", transaction |-> t,
                   user_profile |-> u, hour |-> h, day_of_week |-> d] :
                      t \in FeatureTransactions, u \in FeatureProfiles,
                      h \in {0, 23}, d \in {0, 6}}
    /\ result = NoResult
    /\ Standstill

ExtractFeatures ==
    /\ call.function = "extract_features"
    /\ ~result.returned
    /\ result' = [returned |-> TRUE,
                  value |-> extract_features(call.transaction, call.user_profile,
                                             call.hour, call.day_of_week)]
    /\ UNCHANGED <<system, call>>

NextFeatures == ExtractFeatures

SpecFeatures == FeaturesInit /\ [][NextFeatures]_vars

\* ------------------------------------------------------------ send_webhook
\* Webhook delivery tasks in the Celery worker.  call is the tasks' request
\* context (self.request.retries, and the countdowns given to self.retry so
\* far), result their state: "queued" (waiting for a worker, at first or after
\* a countdown), "success" or "failure", with the number of attempts made.
Webhooks == {"w1", "w2", "w3"}

\* A retry always one second after the failure.
CountdownFixed(retries) == 1

\* countdown=2 ** self.request.retries
Countdown(retries) == 2 ^ retries

\* Task.retry raises the original exception instead of Retry once the request's
\* retries + 1 exceeds max_retries.
RetriesExhausted(retries) == retries + 1 > MAX_RETRIES

WebhookInit ==
    /\ call = [function |-> "send_webhook",
               retries |-> [w \in Webhooks |-> 0],
               countdowns |-> [w \in Webhooks |-> <<>>]]
    /\ result = [returned |-> FALSE,
                 state |-> [w \in Webhooks |-> "queued"],
                 attempts |-> [w \in Webhooks |-> 0]]
    /\ Standstill

\* client.post and raise_for_status pass: the task returns its success dict.
WebhookDelivered(w) ==
    /\ call.function = "send_webhook"
    /\ result.state[w] = "queued"
    /\ result' = [result EXCEPT !.state[w] = "success",
                                !.attempts[w] = @ + 1,
                                !.returned = \A v \in Webhooks \ {w} :
                                                result.state[v] # "queued"]
    /\ UNCHANGED <<system, call>>

\* The attempt raises (connection error, timeout after WEBHOOK_TIMEOUT, HTTP
\* error status): self.retry schedules the next attempt or gives up.
WebhookFailed(w) ==
    /\ call.function = "send_webhook"
    /\ result.state[w] = "queued"
    /\ IF RetriesExhausted(call.retries[w])
       THEN /\ result' = [result EXCEPT !.state[w] = "failure",
                                        !.attempts[w] = @ + 1,
                                        !.returned = \A v \in Webhooks \ {w} :
                                                        result.state[v] # "queued"]
            /\ call' = call
       ELSE /\ result' = [result EXCEPT !.attempts[w] = @ + 1]
            /\ call' = [call EXCEPT !.countdowns[w] =
                                        Append(@, Countdown(call.retries[w])),
                                    !.retries[w] = @ + 1]
    /\ UNCHANGED system

NextWebhook ==
    \/ \E w \in Webhooks : WebhookDelivered(w)
    \/ \E w \in Webhooks : WebhookFailed(w)

\* The worker keeps taking queued tasks.
SpecWebhookLive == WebhookInit /\ [][NextWebhook]_vars /\ WF_vars(NextWebhook)

\* ------------------------------------------- the read-only endpoints
\* GET /balance/{user_id} and GET /health, one of them asked once at any moment
\* of a run of the deployment; call keeps what was asked and the probes'
\* outcomes, result the HTTP answer.
\* func.sum over rows
RECURSIVE SumOfAmounts(_)
SumOfAmounts(rows) ==
    IF rows = {} THEN 0
    ELSE LET r == CHOOSE x \in rows : TRUE
         IN r.amount + SumOfAmounts(rows \ {r})

\* The user's rows whatever their decision.
BalanceRowsAnyDecision(user_id) == {r \in ledger : r.user_id = user_id}

\* .where(Transaction.user_id == user_id, Transaction.is_approved == True)
BalanceRows(user_id) == {r \in ledger : r.user_id = user_id /\ r.is_approved}

\* result.scalar() or 0.0: the sum over no rows is NULL
Balance(user_id) ==
    IF BalanceRows(user_id) = {} THEN 0 ELSE SumOfAmounts(BalanceRows(user_id))

\* get_balance: no try/except, a database failure is an HTTP 500.
get_balance(user_id) ==
    /\ started
    /\ call = NoCall
    /\ call' = [function |-> "get_balance", user_id |-> user_id]
    /\ \E dbUp \in Up :
         result' = IF dbUp
                   THEN [returned |-> TRUE, status |-> 200,
                         body |-> [user_id |-> user_id, balance |-> Balance(user_id),
                                   currency |-> "USD"]]
                   ELSE [returned |-> TRUE, status |-> 500, body |-> [detail |-> "Internal Server Error"]]
    /\ UNCHANGED system

ConnectionStatus(up) == IF up THEN "connected" ELSE "disconnected"

\* A status that follows the two probes.
HealthStatusDegraded(db_status, redis_status) ==
    IF db_status = "connected" /\ redis_status = "connected" THEN "ok" ELSE "degraded"

\* HealthResponse(status="ok", ...)
HealthStatus(db_status, redis_status) == "ok"

\* health_check: each probe in its own try/except.
health_check ==
    /\ started
    /\ call = NoCall
    /\ \E dbUp \in Up, redisUp \in Up :
         LET db_status == ConnectionStatus(dbUp)
             redis_status == ConnectionStatus(redisUp)
         IN /\ call' = [function |-> "health_check", db_up |-> dbUp,
                        redis_up |-> redisUp]
            /\ result' = [returned |-> TRUE, status |-> 200,
                          body |-> [status |-> HealthStatus(db_status, redis_status),
                                    database |-> db_status, redis |-> redis_status]]
    /\ UNCHANGED system

NextQueries ==
    \/ Next
    \/ \E user_id \in Users \cup {"u2"} : get_balance(user_id)
    \/ health_check

SpecQueries == Init /\ [][NextQueries]_vars

\* ------------------------------------------- a deployment with a rule loaded
\* The table fraud_rules already holds a rule that every valid transaction
\* triggers: a rule score of 0 is then the sign of a failed rule engine.
RulesLoadedInit ==
    /\ faults = TRUE
    /\ started = FALSE
    /\ model = "None"
    /\ loads = 0
    /\ now = 0
    /\ ticks = 0
    /\ fraud_rules = {r \in RulePool : r.rule_name = "Any Amount"}
    /\ ledger = {}
    /\ idempotency_keys = {}
    /\ redis_idem = {}
    /\ redis_profile = {}
    /\ tasks = {}
    /\ call = NoCall
    /\ result = NoResult
    /\ InitLocals

SpecRulesLoaded == RulesLoadedInit /\ [][Next]_vars

\* ------------------------------------------------------------------ claims
Succeeded(p) == pc[p] = "done" /\ outcome[p].status = 200

SameScores(a, b) ==
    /\ a.rule_score = b.rule_score
    /\ a.ml_score = b.ml_score
    /\ a.risk_score = b.risk_score

\* C1: when a request has been answered and the identical body with the same
\* idempotency key is submitted again, the second response carries the first
\* response's transaction id and rule, model and final scores.
C1_RetryReturnsSameAnswer ==
    \A p \in Reqs : \A q \in prior[p] :
        (Succeeded(p) /\ Succeeded(q) /\ txn[p] = txn[q])
            => /\ outcome[p].body.transaction_id = outcome[q].body.transaction_id
               /\ SameScores(outcome[p].body, outcome[q].body)

\* C2: a request that reuses the key of an already answered request with a
\* different body is never answered with a success.
C2_ConflictIsRejected ==
    \A p \in Reqs : \A q \in prior[p] :
        (pc[p] = "done" /\ Succeeded(q)
           /\ txn[p].idempotency_key = txn[q].idempotency_key /\ txn[p] # txn[q])
            => outcome[p].status # 200

\* C3: whatever the interleaving, two successful responses to the same key and
\* body carry the same transaction id and the same decision.
C3_NoDivergentAnswers ==
    \A p \in Reqs, q \in Reqs :
        (Succeeded(p) /\ Succeeded(q) /\ txn[p] = txn[q])
            => /\ outcome[p].body.transaction_id = outcome[q].body.transaction_id
               /\ outcome[p].body.status = outcome[q].body.status
               /\ outcome[p].body.is_fraud = outcome[q].body.is_fraud

\* C4: in every reachable state the ledger holds at most one row per
\* idempotency key.
C4_OneLedgerRowPerKey ==
    \A r1 \in ledger, r2 \in ledger :
        r1.idempotency_key = r2.idempotency_key => r1 = r2

\* Two requests with one key have both passed the ledger write; one got the
\* row, the other fell back to the local timestamp.
C4_Witness ==
    \E p \in Reqs, q \in Reqs :
        /\ p # q
        /\ txn[p].idempotency_key = txn[q].idempotency_key
        /\ pc[p] = "done" /\ pc[q] = "done"
        /\ created_at[p].src = "db" /\ created_at[q].src = "local"
        /\ Cardinality({r \in ledger :
                          r.idempotency_key = txn[p].idempotency_key}) = 1

TasksFor(key, kind) ==
    {t \in tasks : t.kind = kind /\ txn[t.by].idempotency_key = key}

\* C5: for one idempotency key each side-effect task (fraud alert, profile
\* update) is submitted at most once.
C5_SideEffectsAtMostOncePerKey ==
    \A key \in Keys, kind \in {"send_fraud_alert_email", "update_user_profile"} :
        Cardinality(TasksFor(key, kind)) <= 1

\* C6: a step of the idempotency check that ends the request (a Hit) answers 200
\* with exactly the payload the cache holds for the key, and leaves the ledger,
\* the idempotency table, the profile cache, the task queue, the scorer and the
\* request's scores as they were.
C6_HitReplaysAndChangesNothing ==
    [][\A p \in Reqs :
         (pc[p] \in {"check_cache", "check_db"} /\ pc'[p] = "done")
            => /\ outcome'[p].status = 200
               /\ \E e \in redis_idem' :
                     /\ e.key = txn[p].idempotency_key
                     /\ outcome'[p].body = e.response
               /\ UNCHANGED <<ledger, idempotency_keys, redis_profile, tasks, model,
                              rule_score, ml_score, final_risk_score, is_fraud,
                              is_approved, created_at>>]_vars

\* A request was answered with the stored result and no task was submitted.
C6_Witness ==
    \E p \in Reqs :
        /\ Succeeded(p)
        /\ outcome[p].body = SeedResponse
        /\ rule_score[p] = 0 /\ ml_score[p] = 0 /\ created_at[p] = NoTime
        /\ tasks = {}

\* C7: the final score of the response is 0.4 * rule score + 0.6 * model score
\* (in thousandths: 4 * rule + 6 * model, the scores in hundredths), and it
\* lies in [0,1] for all rule and model scores in [0,1].
C7_FinalScoreIsWeightedSum ==
    \A p \in Reqs :
        pc[p] = "fused"
            => /\ response_data(p).risk_score
                    = 4 * response_data(p).rule_score + 6 * response_data(p).ml_score
               /\ response_data(p).risk_score >= 0
               /\ response_data(p).risk_score <= 1000

\* Both scores at 1.0 give the final score 1.0.
C7_Witness ==
    \E p \in Reqs :
        /\ pc[p] = "fused"
        /\ rule_score[p] = 100 /\ ml_score[p] = 100
        /\ final_risk_score[p] = 1000

\* C8: the fraud flag is set exactly when the final score exceeds 0.7, the
\* status is "approved" exactly when it is below 0.8 and "declined" otherwise;
\* a score between the two is both flagged and approved, 0.7 is not fraud and
\* 0.8 is declined.
C8_IndependentThresholds ==
    \A p \in Reqs :
        pc[p] = "fused"
            => LET final == final_risk_score[p]
                   resp == response_data(p)
               IN /\ resp.is_fraud <=> final > 700
                  /\ resp.status = "approved" <=> final < 800
                  /\ resp.status = "declined" <=> final >= 800
                  /\ (final > 700 /\ final < 800)
                        => (resp.is_fraud /\ resp.status = "approved")
                  /\ final = 700 => ~resp.is_fraud
                  /\ final = 800 => resp.status = "declined"

\* A final score of 0.75: flagged as fraud and approved.
C8_Witness ==
    \E p \in Reqs :
        /\ pc[p] = "fused"
        /\ final_risk_score[p] = 750
        /\ is_fraud[p] /\ response_data(p).status = "approved"

\* C9: a request that leaves the scoring step goes on to the ledger write, with
\* model score 0.0 when the scorer could not load its model; it is not ended
\* there.
C9_ScorerFailureSubstitutesZero ==
    [][\A p \in Reqs :
         (pc[p] = "score" /\ pc'[p] # "score")
            => /\ pc'[p] = "persist"
               /\ model' = "None" => ml_score'[p] = 0]_vars

\* C10: a request whose ledger write failed (local timestamp) is answered with
\* a success carrying the computed scores and that local timestamp.
C10_LedgerFailureStillAnswers ==
    \A p \in Reqs :
        (pc[p] = "done" /\ created_at[p].src = "local")
            => /\ outcome[p].status = 200
               /\ outcome[p].body.created_at.src = "local"
               /\ outcome[p].body.rule_score = rule_score[p]
               /\ outcome[p].body.ml_score = ml_score[p]
               /\ outcome[p].body.risk_score = final_risk_score[p]

\* C11: a request that leaves the task-dispatch step is answered with a success
\* carrying its computed decision, whether or not the task submissions went
\* through.
C11_DispatchNeverPreventsResponse ==
    [][\A p \in Reqs :
         (pc[p] = "notify" /\ pc'[p] # "notify")
            => /\ outcome'[p].status = 200
               /\ outcome'[p].body = JsonableEncoder(response_data(p))]_vars

\* C12: a request with amount <= 0 or without an idempotency key is answered
\* with a validation error the moment it arrives, and its arrival changes no
\* store, no cache, no queue, no score and not the scorer.
C12_InvalidRequestRejectedUnprocessed ==
    [][\A p \in Reqs :
         (pc'[p] # "idle"
            /\ (txn'[p].amount <= 0 \/ txn'[p].idempotency_key = Missing))
            => /\ pc'[p] = "done"
               /\ outcome'[p].status = 422
               /\ pc[p] = "idle" =>
                     UNCHANGED <<ledger, idempotency_keys, redis_idem, redis_profile,
                                 tasks, fraud_rules, model, rule_score, ml_score,
                                 final_risk_score, is_fraud, is_approved, created_at>>]_vars

\* One request was rejected for its amount and one for its missing key, and
\* nothing was written.
C12_Witness ==
    \E p \in Reqs, q \in Reqs :
        /\ pc[p] = "done" /\ outcome[p].status = 422
        /\ txn[p].amount = 0 /\ txn[p].idempotency_key \in Keys
        /\ pc[q] = "done" /\ outcome[q].status = 422
        /\ txn[q].amount \in Amounts /\ txn[q].idempotency_key = Missing
        /\ ledger = {} /\ idempotency_keys = {} /\ tasks = {}

\* C13: for a leaf predicate over a numeric transaction field and a numeric
\* rule value, evaluate_condition returns true exactly when the comparison the
\* operator names holds between the two numbers; when the field is absent from
\* the transaction it returns false.
C13_NumericComparison ==
    (call.function = "evaluate_condition" /\ result.returned) =>
        LET c == call.condition
            t == call.transaction
        IN /\ c.field \notin DOMAIN t => result.value = FALSE
           /\ (/\ c.field \in DOMAIN t
               /\ c.operator \in {">", ">=", "<", "<=", "==", "!="}
               /\ t[c.field].type = "num"
               /\ c.value.type = "num")
                     => LET a == t[c.field].num
                            b == c.value.num
                        IN result.value =
                             CASE c.operator = ">"  -> a > b
                               [] c.operator = ">=" -> a >= b
                               [] c.operator = "<"  -> a < b
                               [] c.operator = "<=" -> a <= b
                               [] c.operator = "==" -> a = b
                               [] c.operator = "!=" -> a # b

\* amount 5000 > 5000 was evaluated and is false (as 4000 > 5000 is, and 6000 >
\* 5000 is not).
C13_Witness ==
    /\ call.function = "evaluate_condition" /\ result.returned
    /\ call.condition = [field |-> "amount", operator |-> ">", value |-> Num(5000)]
    /\ call.transaction.amount = Num(5000)
    /\ result.value = FALSE

\* C20: evaluate_condition returns false whenever operator and operands do
\* not fit: in / not_in with a value that is not a list, an ordering comparison
\* with None or with operands of different types, contains on a transaction
\* value that is neither str nor list, an unknown operator.
C20_MismatchIsFalse ==
    (call.function = "evaluate_condition" /\ result.returned
        /\ call.condition.field \in DOMAIN call.transaction) =>
        LET c == call.condition
            a == call.transaction[c.field]
            b == c.value
            converted == b.type = "num" /\ a.type = "str"
            mismatch ==
                \/ c.operator \in {"in", "not_in"} /\ b.type # "list"
                \/ /\ c.operator \in {">", ">=", "<", "<="}
                   /\ (a.type = "None" \/ b.type = "None"
                         \/ (a.type # b.type /\ ~converted))
                \/ c.operator = "contains" /\ a.type \notin {"str", "list"}
                \/ c.operator \notin Operators
        IN mismatch => result.value = FALSE

\* C14: evaluate_transaction returns the largest risk_score among the active
\* rules whose condition holds (0.5 for a rule without risk_score), cut to
\* [0,1]; 0 when no rule triggers.
C14_RuleScoreIsClampedMax ==
    [][(call'.function = "evaluate_transaction" /\ <<call, result>>' # <<call, result>>) =>
         LET t == call'.transaction
             triggered == {r \in fraud_rules :
                             r.is_active /\ evaluate_condition(r.rule_condition, t)}
             risk(r) == IF "risk_score" \in DOMAIN r.rule_actions
                        THEN r.rule_actions.risk_score ELSE 50
             score == result'.value
         IN /\ score >= 0 /\ score <= 100
            /\ triggered = {} => score = 0
            /\ \A r \in triggered :
                  (\A o \in triggered : risk(o) <= risk(r))
                     => score = (IF risk(r) > 100 THEN 100
                                 ELSE IF risk(r) < 0 THEN 0 ELSE risk(r))]_vars

\* Two triggered rules, one without risk_score (0.5) and one with 0.9: 0.9.
C14_Witness ==
    /\ call.function = "evaluate_transaction" /\ result.returned
    /\ call.transaction.amount = Num(6000)
    /\ {r.rule_name : r \in fraud_rules} = {"Any Amount", "Very High Amount"}
    /\ result.value = 90

\* C17: a create-rule call for a name that exists is answered 409 and leaves
\* the rule set as it was; after every create-rule call no two rules share a
\* name.
C17_RuleNamesUnique ==
    [][(call'.function = "create_fraud_rule" /\ <<call, result>>' # <<call, result>>) =>
         /\ (\E r \in fraud_rules : r.rule_name = call'.rule.rule_name)
               => (result'.status = 409 /\ fraud_rules' = fraud_rules)
         /\ \A r1 \in fraud_rules', r2 \in fraud_rules' :
               r1.rule_name = r2.rule_name => r1 = r2]_vars

\* A rule with the name of an existing rule and another condition was refused.
C17_Witness ==
    /\ call.function = "create_fraud_rule" /\ result.returned
    /\ result.status = 409
    /\ call.rule \notin fraud_rules
    /\ \E r \in fraud_rules : r.rule_name = call.rule.rule_name

\* C15: score_transaction returns a value in [0,1], and of two calls the one
\* with the more negative decision value returns a score at least as close to
\* 1, strictly closer when the decision values differ by 0.5 or more (scores
\* are kept to hundredths).
C15_ScoreInRangeAndFalling ==
    (call.function = "score_transaction" /\ result.returned) =>
        LET d1 == call.decision_scores[1]
            d2 == call.decision_scores[2]
            s1 == result.value[1]
            s2 == result.value[2]
        IN /\ s1 >= 0 /\ s1 <= 100
           /\ s2 >= 0 /\ s2 <= 100
           /\ d1 < d2 => s1 >= s2
           /\ d1 + 50 <= d2 => s1 > s2

\* Decision values -1.0 and 0.0 were scored 0.73 and 0.50.
C15_Witness ==
    /\ call.function = "score_transaction" /\ result.returned
    /\ call.decision_scores = <<-100, 0>>
    /\ result.value = <<73, 50>>

\* C16: the balance returned for a user is the sum of the amounts of the
\* approved ledger entries of that user at the moment of the query: declined
\* entries and other users' entries add nothing, and with no approved entry
\* the balance is 0.  The sum is taken over the requests whose row was written.
C16_BalanceIsApprovedSum ==
    [][(call = NoCall /\ call'.function = "get_balance" /\ result'.status = 200) =>
         LET user_id == call'.user_id
             Counts(p) == /\ created_at[p].src = "db"
                          /\ is_approved[p]
                          /\ txn[p].user_id = user_id
             total[n \in 0..NumReqs] ==
                 IF n = 0 THEN 0
                 ELSE total[n - 1] + (IF Counts(n) THEN txn[n].amount ELSE 0)
         IN /\ result'.body.user_id = user_id
            /\ result'.body.balance = total[NumReqs]]_vars

\* User u1 was told a balance of 100 and the ledger holds an approved entry of
\* 100 and a declined one of 6000 for u1.
C16_Witness ==
    /\ call.function = "get_balance" /\ call.user_id = "u1"
    /\ result.returned /\ result.status = 200
    /\ result.body.balance = 100
    /\ \E r \in ledger : r.user_id = "u1" /\ r.is_approved /\ r.amount = 100
    /\ \E r \in ledger : r.user_id = "u1" /\ ~r.is_approved /\ r.amount = 6000
    /\ \A p \in Reqs : pc[p] = "done"

\* C18: a health query is always answered with overall status "ok"; its
\* database field tells whether the database probe succeeded and its redis
\* field whether the cache probe succeeded, each whatever the other gave.
C18_HealthReportsEachDependency ==
    (call.function = "health_check" /\ result.returned) =>
        /\ result.status = 200
        /\ result.body.status = "ok"
        /\ result.body.database = (IF call.db_up THEN "connected" ELSE "disconnected")
        /\ result.body.redis = (IF call.redis_up THEN "connected" ELSE "disconnected")

\* The database probe failed and the cache probe succeeded: "ok",
\* "disconnected", "connected".
C18_Witness ==
    /\ call.function = "health_check" /\ result.returned
    /\ ~call.db_up /\ call.redis_up
    /\ result.body = [status |-> "ok", database |-> "disconnected", redis |-> "connected"]

\* C19: when rule loading or rule evaluation failed for a transaction (here:
\* the rule score is 0 although a loaded rule matches every transaction), the
\* request is answered with a decision whose rule score is 0.0 and whose final
\* score is 0.6 * the model score; the request is not aborted.
C19_RuleFailureStillAnswers ==
    \A p \in Reqs :
        (/\ pc[p] = "done"
         /\ ValidRequest(txn[p])
         /\ rule_score[p] = 0) =>
            /\ outcome[p].status = 200
            /\ outcome[p].body.rule_score = 0
            /\ outcome[p].body.risk_score = ML_WEIGHT * outcome[p].body.ml_score

\* C21: evaluate_conditions returns true for AND exactly when every
\* sub-predicate is true, true for OR exactly when at least one is, false for
\* any other logic value, and evaluates a condition without logic as one leaf.
C21_CombinatorTruthTable ==
    (call.function = "evaluate_conditions" /\ result.returned) =>
        LET c == call.conditions
            t == call.transaction
            subs == IF "conditions" \in DOMAIN c THEN c.conditions ELSE <<>>
            Holds(i) == evaluate_condition(subs[i], t)
            IsLogic(word) == c.logic.type = "str" /\ Upper(c.logic.str) = word
        IN /\ ~result.raised
           /\ result.value =
                IF "logic" \notin DOMAIN c THEN evaluate_condition(c, t)
                ELSE IF IsLogic(<<"A", "N", "D">>) THEN \A i \in 1..Len(subs) : Holds(i)
                ELSE IF IsLogic(<<"O", "R">>) THEN \E i \in 1..Len(subs) : Holds(i)
                ELSE FALSE

\* C29: a combinator placed inside another combinator's conditions list
\* evaluates to false whatever its own sub-predicates are: an AND holding one
\* is false, and an OR is true exactly when one of its leaf sub-conditions is.
C29_NestedCombinatorIsFalse ==
    (/\ call.function = "evaluate_conditions" /\ result.returned
     /\ ~result.raised
     /\ "logic" \in DOMAIN call.conditions
     /\ "conditions" \in DOMAIN call.conditions) =>
        LET subs == call.conditions.conditions
            logic == Upper(call.conditions.logic.str)
            Nested(i) == "logic" \in DOMAIN subs[i] /\ "field" \notin DOMAIN subs[i]
            LeafHolds(i) == ~Nested(i) /\ evaluate_condition(subs[i], call.transaction)
        IN /\ (logic = <<"A", "N", "D">> /\ \E i \in 1..Len(subs) : Nested(i))
                  => ~result.value
           /\ logic = <<"O", "R">>
                  => (result.value <=> \E i \in 1..Len(subs) : LeafHolds(i))

\* OR over the single sub-condition AND[amount > 5000], amount 6000: false.
C29_Witness ==
    /\ call.function = "evaluate_conditions" /\ result.returned
    /\ call.conditions =
          [logic |-> Str(<<"O", "R">>),
           conditions |-> <<[logic |-> Str(<<"A", "N", "D">>),
                             conditions |-> <<[field |-> "amount", operator |-> ">",
                                               value |-> Num(5000)]>>]>>]
    /\ call.transaction.amount = Num(6000)
    /\ ~result.raised /\ ~result.value

C24_CacheRecordsDespiteStoreFailure ==
    [][\A p \in Reqs :
         LET key == txn[p].idempotency_key
             response == JsonableEncoder(response_data(p))
             stored == {r \in idempotency_keys' :
                           /\ r.idempotency_key = key
                           /\ JsonableEncoder(r.response_data) = response}
         IN /\ (pc[p] = "store" /\ pc'[p] = "notify" /\ stored = {}) =>
                  \E e \in redis_idem' :
                      e.key = key /\ JsonableEncoder(e.response) = response
            /\ (pc[p] = "notify" /\ pc'[p] = "done") =>
                  /\ outcome'[p].status = 200
                  /\ outcome'[p].body = response
            /\ (pc[p] # "done" /\ pc'[p] = "done" /\ ticks = 0) =>
                  \A q \in prior[p] :
                      (txn[q] = txn[p] /\ outcome[q].status = 200) =>
                          outcome'[p] = outcome[q]]_vars

\* C25: for every transaction that was processed and answered with its
\* decision, a fraud-alert task was submitted if and only if the fraud flag is
\* set (final score > 0.7), and exactly one profile-update task was submitted;
\* no alert is ever submitted for a transaction that is not flagged, and tasks
\* are submitted by the Notify step only.
C25_AlertIffFlaggedUpdateAlways ==
    [][\A p \in Reqs :
         LET Mine(S, kind) == {t \in S : t.by = p /\ t.kind = kind}
             alerts == Mine(tasks', "send_fraud_alert_email")
             updates == Mine(tasks', "update_user_profile")
         IN /\ alerts # {} => is_fraud'[p]
            /\ {t \in tasks' \ tasks : t.by = p} # {} => pc[p] = "notify"
            /\ Mine(tasks, "update_user_profile") \subseteq updates
            /\ (pc'[p] = "done" /\ outcome'[p].status = 200
                  /\ outcome'[p].body.transaction_id = NewTransactionId(p)) =>
                  /\ is_fraud'[p] <=> final_risk_score'[p] > FRAUD_THRESHOLD
                  /\ alerts # {} <=> is_fraud'[p]
                  /\ Cardinality(updates) = 1
                  /\ \A t \in alerts \cup updates : t.user_id = txn'[p].user_id]_vars

\* One transaction answered with the fraud flag and both tasks, another
\* answered without the flag and with the profile update alone.
C25_Witness ==
    \E p, q \in Reqs :
        /\ pc[p] = "done" /\ outcome[p].status = 200 /\ is_fraud[p]
        /\ \E t \in tasks : t.by = p /\ t.kind = "send_fraud_alert_email"
        /\ \E t \in tasks : t.by = p /\ t.kind = "update_user_profile"
        /\ pc[q] = "done" /\ outcome[q].status = 200 /\ ~is_fraud[q]
        /\ ~ \E t \in tasks : t.by = q /\ t.kind = "send_fraud_alert_email"
        /\ \E t \in tasks : t.by = q /\ t.kind = "update_user_profile"

\* C26: the model is initialized lazily by the first scoring call that finds
\* it missing, and over any interleaving of the startup load and the scoring
\* calls of concurrent requests the model is loaded or built at most once.
C26_ModelLoadedAtMostOnce ==
    [][/\ loads' <= 1
       /\ model' = "loaded" <=> loads' = 1
       /\ \A p \in Reqs :
            (pc[p] = "score" /\ pc'[p] = "persist") =>
                /\ model' = "loaded"
                /\ model = "None" => loads' = loads + 1]_vars

\* The startup load and one request's lazy load failed (that request got 500
\* from the scorer), another request's scoring call then loaded the model.
C26_Witness ==
    \E p, q \in Reqs :
        /\ pc[p] = "done" /\ outcome[p].status = 500 /\ ValidRequest(txn[p])
        /\ created_at[p] = NoTime
        /\ pc[q] = "done" /\ outcome[q].status = 200
        /\ model = "loaded" /\ loads = 1

\* C27: extract_features yields six components in the order amount, hour,
\* day of week, deviation, location flag, frequency.  The deviation is
\* |amount - avg| / avg for a profile with average > 0 and 1.0 without a
\* profile or with an average that is not positive; the location flag is 1
\* exactly when the profile records a home location that differs from the
\* transaction's, and 0 without a profile or home location; the frequency is
\* count / 1000 cut to 1.0 and lies in [0,1].
C27_FeatureVector ==
    (call.function = "extract_features" /\ result.returned) =>
        LET t == call.transaction
            u == call.user_profile
            v == result.value
            profiled == u # NoUserProfile
            hasAvg == profiled /\ "average_transaction_amount" \in DOMAIN u
            hasHome == /\ profiled /\ "home_location" \in DOMAIN u
                       /\ u.home_location \notin {"None", ""}
            count == IF profiled /\ "transaction_count" \in DOMAIN u
                     THEN u.transaction_count ELSE 0
        IN /\ Len(v) = 6
           /\ v[1] = t.amount /\ v[2] = call.hour /\ v[3] = call.day_of_week
           /\ (hasAvg /\ u.average_transaction_amount > 0) =>
                 LET avg == u.average_transaction_amount
                     gap == IF t.amount >= avg THEN t.amount - avg ELSE avg - t.amount
                 IN /\ 2 * (v[4] * avg - 1000 * gap) <= avg
                    /\ 2 * (1000 * gap - v[4] * avg) <= avg
           /\ (~profiled \/ (hasAvg /\ u.average_transaction_amount <= 0)) => v[4] = 1000
           /\ v[5] = (IF hasHome /\ u.home_location # t.location THEN 1 ELSE 0)
           /\ v[6] >= 0 /\ v[6] <= 1000
           /\ v[6] = (IF count >= 1000 THEN 1000 ELSE count)

\* Amount 100 against an average of 50, home NY, transaction in LA, 10
\* transactions so far: deviation 1.0, flag 1, frequency 0.01.
C27_Witness ==
    /\ call.function = "extract_features" /\ result.returned
    /\ call.transaction = [amount |-> 100, location |-> "LA"]
    /\ call.user_profile =
          [risk_score |-> 10, home_location |-> "NY",
           average_transaction_amount |-> 50, transaction_count |-> 10]
    /\ call.hour = 23 /\ call.day_of_week = 6
    /\ result.value = <<100, 23, 6, 1000, 1, 10>>

\* C28: a webhook delivery makes a bounded number of attempts: after a failed
\* attempt it is retried at most 3 times, the n-th retry (n = 0, 1, 2) being
\* scheduled 2^n seconds after the failure; it succeeds at its first
\* successful attempt, fails once the retries are exhausted, stays in that
\* state, and always reaches one of the two.
C28_WebhookBoundedRetries ==
    /\ [](call.function = "send_webhook" =>
            \A w \in Webhooks :
                LET retries == call.retries[w]
                    attempts == result.attempts[w]
                    state == result.state[w]
                IN /\ retries <= 3
                   /\ attempts <= 4
                   /\ Len(call.countdowns[w]) = retries
                   /\ \A n \in 1..retries : call.countdowns[w][n] = 2 ^ (n - 1)
                   /\ state = "queued" => attempts = retries
                   /\ state = "success" => attempts = retries + 1
                   /\ state = "failure" => (attempts = 4 /\ retries = 3))
    /\ [][\A w \in Webhooks :
            result.state[w] \in {"success", "failure"} =>
                /\ result'.state[w] = result.state[w]
                /\ result'.attempts[w] = result.attempts[w]]_vars
    /\ <>(\A w \in Webhooks : result.state[w] \in {"success", "failure"})

\* One delivery failed four times (retries after 1, 2 and 4 seconds) and is a
\* failure; the other succeeded on its second attempt.
C28_Witness ==
    /\ call.function = "send_webhook"
    /\ result.state["w1"] = "failure" /\ result.attempts["w1"] = 4
    /\ call.countdowns["w1"] = <<1, 2, 4>>
    /\ result.state["w2"] = "success" /\ result.attempts["w2"] = 2
    /\ call.countdowns["w2"] = <<1>>

\* C30: when the cache lookup fails, check_idempotency_key is left before the
\* durable store is consulted (no record is read, refreshed or removed) and
\* the request is processed as a Miss: even with an unexpired matching record
\* stored for its key it is answered with a newly generated transaction id.
C30_CacheFailureIsAMiss ==
    [][\A p \in Reqs :
         LET key == txn[p].idempotency_key
             live == {e \in redis_idem : e.key = key /\ e.expires > now}
         IN /\ (pc[p] = "check_cache" /\ pc'[p] # "check_cache") =>
                  /\ live # {} => pc'[p] \in {"done", "profile"}
                  /\ pc'[p] = "profile" =>
                        /\ idempotency_keys' = idempotency_keys
                        /\ redis_idem' = redis_idem
                        /\ outcome'[p] = outcome[p]
            /\ (pc[p] = "notify" /\ pc'[p] = "done" /\ outcome'[p].status = 200) =>
                  /\ outcome'[p].body.transaction_id = NewTransactionId(p)
                  /\ \A r \in idempotency_keys :
                        r.response_data.transaction_id # NewTransactionId(p)]_vars

\* The only request so far carries the stored key and body; the table holds
\* its unexpired record and the cache its live entry all along, and yet the
\* request was processed and answered with a new transaction id.
C30_Witness ==
    \E p \in Reqs :
        /\ \A q \in Reqs \ {p} : pc[q] = "idle"
        /\ ticks = 0
        /\ txn[p] = SeedTxn
        /\ SeedRecord \in idempotency_keys /\ SeedRecord.expires_at > now
        /\ SeedCacheEntry \in redis_idem
        /\ pc[p] = "done" /\ outcome[p].status = 200
        /\ outcome[p].body.transaction_id = NewTransactionId(p)
        /\ outcome[p].body.transaction_id # SeedResponse.transaction_id

====
